---------------------------- MODULE Spec2Model ----------------------------
(***************************************************************************)
(* Model of the Orion support knowledge base: the text normaliser, the     *)
(* similarity scorer, the object detector, the ranking engine and the      *)
(* refresh interval of search_solution.py, the bot's rendering of a        *)
(* ranking, and the record store with its refresh paths (the self          *)
(* re-arming timer of the interactive CLI, and /reload of the Telegram     *)
(* bot); the upload-mode sessions of the bot; and the schedule cache of    *)
(* the checklist service (checklists/app.py).                              *)
(*                                                                         *)
(* Text is a sequence of one-character strings.  TLA+ strings are ASCII,   *)
(* so the Cyrillic header names of the sheet are written in Latin letters: *)
(* "Problema", "Obekt", "zaprosy".                                         *)
(***************************************************************************)
EXTENDS Integers, Sequences, FiniteSets, TLC

VARIABLES
    \* ---- the ranking engine: one call of find_best_with_object
    problem_text,   \* argument problem_text
    in_rows,        \* argument rows
    top_n,          \* argument top_n
    object_code,    \* argument object_code (NoneVal or a text)
    scored,         \* the local list scored after scored.sort(...)
    result,         \* the returned slice
    rkpc,           \* "input" before the call; after it "done" (ranking),
                    \* "formatted", "detected", "normalized", "renormalized"
                    \* or "interval"
    object_synonyms,\* argument object_synonyms of detect_object_code
    bot_answer,     \* what format_result made of result
    \* ---- one call of normalize, and a second call on what it returned
    text_in,        \* argument text
    normalized,     \* the value returned, or AttributeError
    renormalized,   \* the value the second call returned
    \* ---- one call of get_refresh_interval
    refresh_interval_sec,   \* the entry of config.json
    refresh_interval,       \* the value returned
    \* ---- the upload-mode sessions of the bot
    upload_mode,    \* the dict upload_mode: user id -> expiry timestamp
    clock,          \* what time.time() returns now
    ticks,          \* how many times the clock has advanced
    handled,        \* the update handled last
    outcome,        \* what its handler did
    last_upload,    \* history: user id -> time of the user's latest /upload
    \* ---- the schedule cache of the checklist service (checklists/app.py)
    CACHE_TTL_SECONDS,  \* the module constant, read from the environment
    _cache,         \* the global _cache: NoCache (None) or a CacheEntry
    app_file,       \* LOCAL_CSV of the service
    app_clock,      \* what time.time() returns now
    req,            \* per request thread: where its call of _get_schedule
                    \* is, whether it is forced, how its fetch and it ended
    \* ---- the record store of a running program
    prog,           \* which program runs: "cli" (interactive), "cli_once"
                    \* (the query on the command line) or "bot"
    localFile,      \* LOCAL_CSV: absent, unreadable, or the rows it parses to
    rows,           \* the active record set: shared["rows"] / bot.rows
    lock,           \* threading.Lock of the CLI: "free", "main" or "timer"
    mpc,            \* position of the main thread / of the bot's event loop
    tpc,            \* position of the timer thread of start_background_refresh
    timers,         \* the Timer objects started whose _refresh has not begun
    fetched,        \* what the latest call of fetch_rows returned: the local
                    \* rows / new_rows / new of its caller
    current_rows,   \* the reference the running query ranks
    seen,           \* the records the running query has scored so far
    reply,          \* the latest answer to a query: "none", "nodata", "answer"
    everActive,     \* history: every record set that has been the active one
    loadLocal,      \* history: LOCAL_CSV as it was when the initial load began
    loadRemote,     \* history: what the remote source answered to that load
    loaded          \* history: how load_rows_with_fallback ended

normVars   == <<text_in, normalized, renormalized>>
configVars == <<refresh_interval_sec, refresh_interval>>
uploadVars == <<upload_mode, clock, ticks, handled, outcome, last_upload>>
cacheVars == <<CACHE_TTL_SECONDS, _cache, app_file, app_clock, req>>
serviceVars == <<uploadVars, cacheVars>>
rankVars  == <<problem_text, in_rows, top_n, object_code, scored, result, rkpc,
               object_synonyms, bot_answer, normVars, configVars, serviceVars>>
storeVars == <<prog, localFile, rows, lock, mpc, tpc, timers, fetched, current_rows,
               seen, reply, everActive, loadLocal, loadRemote, loaded>>
vars == <<rankVars, storeVars>>

-----------------------------------------------------------------------------
(* Bounds of the model *)

\* longest record sequence a ranking call is given
MaxRows == 2
\* largest top_n a ranking call is given (the smallest is -1)
MaxTop == 2

-----------------------------------------------------------------------------
(* Text *)

\* Python's None, as a value that can be compared with any text
NoneVal == <<"<None>">>

UpperChars == <<"A","B","C","D","E","F","G","H","I","J","K","L","M",
                "N","O","P","Q","R","S","T","U","V","W","X","Y","Z">>
LowerChars == <<"a","b","c","d","e","f","g","h","i","j","k","l","m",
                "n","o","p","q","r","s","t","u","v","w","x","y","z">>
DigitChars == <<"0","1","2","3","4","5","6","7","8","9">>

Range(s) == {s[i] : i \in 1..Len(s)}

\* \s of the regular expressions, and what str.strip() strips
IsSpace(c) == c \in {" ", "\t", "\n", "\r", "\f"}

\* \w of the regular expressions
WordChars ==
    Range(UpperChars) \cup Range(LowerChars) \cup Range(DigitChars) \cup {"_"}

IsWord(c) == c \in WordChars

LowerOf ==
    [c \in Range(UpperChars) |->
        LowerChars[CHOOSE i \in 1..Len(UpperChars) : UpperChars[i] = c]]

\* str.lower() on one character
LowerChar(c) == IF c \in DOMAIN LowerOf THEN LowerOf[c] ELSE c

\* str.lower()
Lower(s) == [i \in 1..Len(s) |-> LowerChar(s[i])]

\* str.upper() on one character
UpperChar(c) ==
    IF c \in Range(LowerChars)
    THEN UpperChars[CHOOSE i \in 1..Len(LowerChars) : LowerChars[i] = c]
    ELSE c

\* str.upper()
Upper(s) == [i \in 1..Len(s) |-> UpperChar(s[i])]

RECURSIVE LStrip(_)
LStrip(s) == IF s # <<>> /\ IsSpace(Head(s)) THEN LStrip(Tail(s)) ELSE s

RECURSIVE RStrip(_)
RStrip(s) ==
    IF s # <<>> /\ IsSpace(s[Len(s)]) THEN RStrip(SubSeq(s, 1, Len(s) - 1)) ELSE s

\* str.strip()
Strip(s) == RStrip(LStrip(s))

\* re.sub(r"\s+", " ", text): every run of whitespace becomes one space
RECURSIVE CollapseSpace(_)
CollapseSpace(s) ==
    IF s = <<>> THEN <<>>
    ELSE IF IsSpace(Head(s))
         THEN <<" ">> \o CollapseSpace(LStrip(s))
         ELSE <<Head(s)>> \o CollapseSpace(Tail(s))

\* re.sub(r"[^\w\s...]", " ", text): every other character becomes a space
ReplacePunct(s) ==
    [i \in 1..Len(s) |-> IF IsWord(s[i]) \/ IsSpace(s[i]) THEN s[i] ELSE " "]

\* a normalize that stops after replacing the punctuation
NormalizeOnePass(text) == ReplacePunct(CollapseSpace(Strip(Lower(text))))

normalize(text) ==
    LET t1 == Strip(Lower(text))
        t2 == CollapseSpace(t1)
        t3 == ReplacePunct(t2)
    IN  Strip(CollapseSpace(t3))

\* the exception of None.lower(): None has no attribute lower
AttributeError == <<"<AttributeError>">>

\* a call normalize(text): a str goes through the function, None raises at
\* text.lower()
Normalized(v) == IF v = NoneVal THEN AttributeError ELSE normalize(v)

\* Python's  x in y  on strings
IsSubstring(x, y) ==
    \E i \in 0..(Len(y) - Len(x)) : SubSeq(y, i + 1, i + Len(x)) = x

-----------------------------------------------------------------------------
(* Scores.  A float score 2.0*M/T is kept as the exact fraction <<2M, T>>; *)
(* the fractions that occur differ by far more than a float's precision,   *)
(* so comparing fractions is comparing the floats.                         *)

ScoreLeq(x, y) == x[1] * y[2] <= y[1] * x[2]
ScoreLt(x, y)  == x[1] * y[2] <  y[1] * x[2]
ScoreEq(x, y)  == x[1] * y[2] =  y[1] * x[2]
ScoreMax(x, y) == IF ScoreLt(x, y) THEN y ELSE x

ScoreZero == <<0, 1>>
ScoreOne  == <<1, 1>>
\* the literal 0.95 of find_best_with_object
SubstringFloor == <<19, 20>>


-----------------------------------------------------------------------------
(* The similarity scorer: difflib.SequenceMatcher(None, a, b).ratio()      *)

\* find_longest_match without junk: the matching blocks <<i, j, k>> with
\* a[i..i+k-1] = b[j..j+k-1]; the longest wins, then the one that starts
\* earliest in a, then the one that starts earliest in b
MatchingBlocks(a, b) ==
    {t \in (1..Len(a)) \X (1..Len(b)) \X (1..Len(a)) :
        /\ t[1] + t[3] - 1 <= Len(a)
        /\ t[2] + t[3] - 1 <= Len(b)
        /\ SubSeq(a, t[1], t[1] + t[3] - 1) = SubSeq(b, t[2], t[2] + t[3] - 1)}

BlockBefore(t, u) ==
    \/ t[3] > u[3]
    \/ t[3] = u[3] /\ t[1] < u[1]
    \/ t[3] = u[3] /\ t[1] = u[1] /\ t[2] <= u[2]

\* get_matching_blocks: the longest block, then the same to its left and to
\* its right; the sum of the block sizes
RECURSIVE MatchCount(_, _)
MatchCount(a, b) ==
    LET blocks == MatchingBlocks(a, b)
    IN  IF blocks = {} THEN 0
        ELSE LET m == CHOOSE t \in blocks : \A u \in blocks : BlockBefore(t, u)
             IN  m[3]
                 + MatchCount(SubSeq(a, 1, m[1] - 1), SubSeq(b, 1, m[2] - 1))
                 + MatchCount(SubSeq(a, m[1] + m[3], Len(a)),
                              SubSeq(b, m[2] + m[3], Len(b)))

\* ratio(): 2.0 * matches / length, and 1.0 when both strings are empty
similarity(a, b) ==
    IF Len(a) + Len(b) = 0 THEN ScoreOne
    ELSE <<2 * MatchCount(a, b), Len(a) + Len(b)>>

-----------------------------------------------------------------------------
(* Records.  A row of csv.DictReader is an ordered mapping: a sequence of  *)
(* <<key, value>> pairs with distinct keys.  A value is a text, or NoneVal *)
(* for a column the line was too short to fill.                            *)

\* Python truthiness of a text or None
Truthy(v) == v # NoneVal /\ v # <<>>

\* v or ""
OrEmpty(v) == IF Truthy(v) THEN v ELSE <<>>

RECURSIVE _get_field_case_insensitive(_, _)
_get_field_case_insensitive(row, field_name) ==
    IF row = <<>> THEN <<>>
    ELSE LET k == Head(row)[1]
             v == Head(row)[2]
         IN  IF Truthy(k) /\ Lower(Strip(k)) = Lower(Strip(field_name))
             THEN OrEmpty(v)
             ELSE _get_field_case_insensitive(Tail(row), field_name)

\* "" in row
HasKey(row, key) == \E i \in 1..Len(row) : row[i][1] = key

\* row.get(key)
RowGet(row, key) ==
    IF HasKey(row, key)
    THEN row[CHOOSE i \in 1..Len(row) : row[i][1] = key][2]
    ELSE NoneVal

F_Obekt    == <<"O","b","e","k","t">>
F_Problema == <<"P","r","o","b","l","e","m","a">>
F_zaprosy  == <<"z","a","p","r","o","s","y">>

_get_object_code(row) ==
    LET val  == _get_field_case_insensitive(row, F_Obekt)
        val2 == IF ~Truthy(val) /\ HasKey(row, <<>>)
                THEN OrEmpty(RowGet(row, <<>>))
                ELSE val
    IN  normalize(val2)

\* the separators of re.split(r"[|;/\n]+|[.!?]+", text)
IsSeparator(c) == c \in {"|", ";", "/", "\n", ".", "!", "?"}

\* re.split: the pieces between separators (a run of separators leaves
\* empty pieces, which _split_queries drops)
RECURSIVE SplitPieces(_, _)
SplitPieces(text, piece) ==
    IF text = <<>> THEN <<piece>>
    ELSE IF IsSeparator(Head(text))
         THEN <<piece>> \o SplitPieces(Tail(text), <<>>)
         ELSE SplitPieces(Tail(text), Append(piece, Head(text)))

_split_queries(text) ==
    IF ~Truthy(text) THEN <<>>
    ELSE LET parts == SplitPieces(text, <<>>)
         IN  SelectSeq([i \in 1..Len(parts) |-> Strip(parts[i])],
                       LAMBDA p : p # <<>>)

-----------------------------------------------------------------------------
(* The ranking engine: find_best_with_object                               *)

\* the scope filter: a row is skipped when an object code is given (truthy)
\* and the row's own code differs from it
PassesFilter(row, obj) ==
    ~Truthy(obj) \/ _get_object_code(row) = normalize(obj)

\* the score of a candidate phrase without the substring floor
CandScoreNoFloor(needle, cand) == similarity(needle, normalize(cand))

\* the score of one non-empty candidate phrase, the substring floor applied
CandScore(needle, cand) ==
    LET cand_norm == normalize(cand)
        score     == similarity(needle, cand_norm)
    IN  IF needle # <<>> /\ IsSubstring(needle, cand_norm)
        THEN ScoreMax(score, SubstringFloor)
        ELSE score

\* the loop over candidates: the best score, starting from 0.0
RECURSIVE BestScore(_, _, _)
BestScore(needle, candidates, best_score) ==
    IF candidates = <<>> THEN best_score
    ELSE LET cand == Head(candidates)
         IN  IF ~Truthy(cand)
             THEN BestScore(needle, Tail(candidates), best_score)
             ELSE LET score == CandScore(needle, cand)
                  IN  BestScore(needle, Tail(candidates),
                                IF ScoreLt(best_score, score) THEN score
                                ELSE best_score)

\* candidates without the extra query phrases
CandidatesProblemOnly(row) == <<_get_field_case_insensitive(row, F_Problema)>>

Candidates(row) ==
    <<_get_field_case_insensitive(row, F_Problema)>>
        \o _split_queries(_get_field_case_insensitive(row, F_zaprosy))

RowScore(needle, row) == BestScore(needle, Candidates(row), ScoreZero)

\* the loop over rows.  An entry <<score, i>> is the tuple (best_score, row)
\* with the row held as a reference: row i of the rows given.
RECURSIVE ScoreRows(_, _, _, _)
ScoreRows(needle, rws, obj, i) ==
    IF i > Len(rws) THEN <<>>
    ELSE IF PassesFilter(rws[i], obj)
         THEN <<<<RowScore(needle, rws[i]), i>>>> \o ScoreRows(needle, rws, obj, i + 1)
         ELSE ScoreRows(needle, rws, obj, i + 1)

\* list.sort(key=score, reverse=True) is stable: an entry goes behind every
\* entry whose score is greater than or equal to its own
\* a sort that is not stable: an entry goes in front of its equals
RECURSIVE InsertSortedUnstable(_, _)
InsertSortedUnstable(srt, e) ==
    IF srt = <<>> THEN <<e>>
    ELSE IF ScoreLeq(Head(srt)[1], e[1])
         THEN <<e>> \o srt
         ELSE <<Head(srt)>> \o InsertSortedUnstable(Tail(srt), e)

RECURSIVE InsertSorted(_, _)
InsertSorted(srt, e) ==
    IF srt = <<>> THEN <<e>>
    ELSE IF ScoreLt(Head(srt)[1], e[1])
         THEN <<e>> \o srt
         ELSE <<Head(srt)>> \o InsertSorted(Tail(srt), e)

RECURSIVE SortScored(_, _)
SortScored(done, todo) ==
    IF todo = <<>> THEN done
    ELSE SortScored(InsertSorted(done, Head(todo)), Tail(todo))

Min2(a, b) == IF a < b THEN a ELSE b
Max2(a, b) == IF a > b THEN a ELSE b

\* Python's s[:k]
PySliceTo(s, k) ==
    IF k >= 0 THEN SubSeq(s, 1, Min2(k, Len(s)))
    ELSE SubSeq(s, 1, Max2(Len(s) + k, 0))

\* the slice without the clamp of top_n: scored[:top_n]
TopSliceUnclamped(s, n) == PySliceTo(s, n)

\* scored[: max(top_n, 1)]
TopSlice(s, n) == PySliceTo(s, Max2(n, 1))

\* the local list scored, after the sort
SortedScores(text, rws, obj) ==
    SortScored(<<>>, ScoreRows(normalize(text), rws, obj, 1))

find_best_with_object(text, rws, n, obj) ==
    TopSlice(SortedScores(text, rws, obj), n)

find_best(text, rws, n) == find_best_with_object(text, rws, n, NoneVal)

-----------------------------------------------------------------------------
(* The bot's rendering of a ranking: format_result                         *)

F_Reshenie   == <<"R","e","s","h","e","n","i","e">>
F_Reshenie_2 == <<"R","e","s","h","e","n","i","e","_","2">>
F_Video      == <<"V","i","d","e","o">>
F_Foto       == <<"F","o","t","o">>

\* raw.split(",")
RECURSIVE SplitComma(_, _)
SplitComma(raw, piece) ==
    IF raw = <<>> THEN <<piece>>
    ELSE IF Head(raw) = ","
         THEN <<piece>> \o SplitComma(Tail(raw), <<>>)
         ELSE SplitComma(Tail(raw), Append(piece, Head(raw)))

_parse_file_ids(raw) ==
    LET parts == SplitComma(raw, <<>>)
    IN  SelectSeq([i \in 1..Len(parts) |-> Strip(parts[i])], LAMBDA fid : fid # <<>>)

\* the literal 0.35 of bot.py
MIN_SCORE == <<7, 20>>

\* a threshold that lets every entry through
AcceptsAny(score) == TRUE

\* score >= MIN_SCORE
Accepts(score) == ScoreLeq(MIN_SCORE, score)

\* format_result(scored): the "not found" text, or the block made of the
\* first entry that is good enough: its score, its row (an index into the
\* rows ranked), the fields shown, and the media ids
format_result(scrd) ==
    LET good == SelectSeq(scrd, LAMBDA e : Accepts(e[1]))
    IN  IF good = <<>>
        THEN [kind |-> "not_found", video_ids |-> <<>>, photo_ids |-> <<>>]
        ELSE LET score == good[1][1]
                 row   == in_rows[good[1][2]]
             IN  [kind      |-> "found",
                  score     |-> score,
                  row       |-> good[1][2],
                  obj       |-> Upper(_get_field_case_insensitive(row, F_Obekt)),
                  problem   |-> _get_field_case_insensitive(row, F_Problema),
                  solution  |-> _get_field_case_insensitive(row, F_Reshenie),
                  solution2 |-> _get_field_case_insensitive(row, F_Reshenie_2),
                  video_ids |-> _parse_file_ids(
                                    _get_field_case_insensitive(row, F_Video)),
                  photo_ids |-> _parse_file_ids(
                                    _get_field_case_insensitive(row, F_Foto))]

-----------------------------------------------------------------------------
(* The object detector: detect_object_code.  The synonym table is the dict *)
(* "object_synonyms" of config.json: a sequence of entries <<code, value>> *)
(* with distinct codes, in the order of the file.  A value is              *)
(* [list, items]: a JSON list of aliases, or any other JSON value (list    *)
(* FALSE), a string for instance.  An alias is a text, or NoneVal for a    *)
(* null in the list.                                                       *)

AliasList(items) == [list |-> TRUE, items |-> items]
NotAList == [list |-> FALSE, items |-> <<>>]

\* str(s): a text is itself, None is the text "None"
Str(s) == IF s = NoneVal THEN <<"N","o","n","e">> ELSE s

\* an alias that replaces the best one already when it is as long
ImprovesOrTies(sn, best_len) == Len(sn) >= best_len

\* len(sn) > best_len
Improves(sn, best_len) == Len(sn) > best_len

\* for s in candidates; best is <<best_code, best_len>>
RECURSIVE DetectAliases(_, _, _, _)
DetectAliases(qn, code, candidates, best) ==
    IF candidates = <<>> THEN best
    ELSE LET sn == normalize(Str(Head(candidates)))
         IN  DetectAliases(qn, code, Tail(candidates),
                 IF sn # <<>> /\ IsSubstring(sn, qn) /\ Improves(sn, best[2])
                 THEN <<code, Len(sn)>>
                 ELSE best)

\* for code, synonyms in object_synonyms.items(); an entry whose value is
\* not a list is passed over, and its code with it
RECURSIVE DetectCodes(_, _, _)
DetectCodes(qn, table, best) ==
    IF table = <<>> THEN best
    ELSE LET code     == Head(table)[1]
             synonyms == Head(table)[2]
         IN  IF ~synonyms.list
             THEN DetectCodes(qn, Tail(table), best)
             ELSE DetectCodes(qn, Tail(table),
                      DetectAliases(qn, code, Append(synonyms.items, code), best))

detect_object_code(query, table) ==
    DetectCodes(normalize(query), table, <<NoneVal, 0>>)[1]

-----------------------------------------------------------------------------
(* Rows and queries the model ranks                                        *)

T_ab   == <<"a","b">>
T_cd   == <<"c","d">>
T_abcd == <<"a","b"," ","c","d">>
T_abdc == <<"a","b"," ","d","c">>
T_kp   == <<"k","p">>
T_kz   == <<"k","z">>

\* scope kz, the problem text only
Row1 == << <<F_Obekt, T_kz>>, <<F_Problema, T_abcd>>, <<F_zaprosy, <<>>>> >>
\* scope kp under an upper-case header, extra phrases "ab", "cd", "ef"
Row2 == << <<<<"O","B","E","K","T">>, <<"K","P"," ">>>>,
           <<F_Problema, <<"x","a","b">>>>,
           <<F_zaprosy, <<"a","b","|","c","d","."," ","e","f">>>> >>
\* an empty "Obekt" column, the scope kp in the column without a header,
\* and a line too short to fill "zaprosy"
Row3 == << <<<<" ","o","b","e","k","t">>, <<>>>>, <<<<>>, T_kp>>,
           <<<<"p","r","o","b","l","e","m","a">>, T_cd>>,
           <<F_zaprosy, NoneVal>> >>
\* no scope and no candidate phrase
Row4 == << <<F_Problema, <<>>>>, <<F_zaprosy, <<" ",";"," ">>>> >>
\* scope kz, scores like Row1 on "ab"
Row5 == << <<F_Obekt, T_kz>>, <<F_Problema, T_abdc>> >>
\* no scope, a problem text that normalizes to the empty string
Row6 == << <<F_Problema, <<"?">>>> >>

Catalog == {Row1, Row2, Row3, Row4, Row5, Row6}

RECURSIVE SeqsUpTo(_, _)
SeqsUpTo(S, n) ==
    IF n = 0 THEN {<<>>}
    ELSE LET shorter == SeqsUpTo(S, n - 1)
         IN  shorter \cup {Append(q, x) : q \in shorter, x \in S}

QueryTexts  == {T_ab, <<"A","B","!">>, T_cd, <<"!"," ">>, <<"x","y">>}
ObjectCodes == {NoneVal, <<>>, T_kp, <<"K","z">>, <<"!">>}
TopValues   == -1..MaxTop

-----------------------------------------------------------------------------
(* Synonym tables and queries the model detects object codes in            *)

\* most entries of a synonym table
MaxCodes == 3

\* aliases "ab" and "cd " of the code kp
Entry_kp == <<T_kp, AliasList(<<T_ab, <<"c","d"," ">>>>)>>
\* one long alias, "AB  CD", of the code kz
Entry_kz == <<T_kz, AliasList(<< <<"A","B"," "," ","C","D">> >>)>>
\* no alias: the code cd alone
Entry_cd == <<T_cd, AliasList(<<>>)>>
\* a string where the list of aliases should be
Entry_ab == <<T_ab, NotAList>>
\* a null and an alias that normalizes to the empty string
Entry_x  == << <<"x">>, AliasList(<<NoneVal, <<"!">>>>)>>
\* the empty string as a code
Entry_empty == << <<>>, AliasList(<<T_ab>>)>>

Entries == {Entry_kp, Entry_kz, Entry_cd, Entry_ab, Entry_x, Entry_empty}

\* the keys of a dict are distinct
SynonymTables ==
    {t \in SeqsUpTo(Entries, MaxCodes) :
        \A i, j \in 1..Len(t) : i # j => t[i][1] # t[j][1]}

DetectQueries ==
    {T_ab, <<"A","B"," ","c","d">>, <<"c","d","!">>,
     <<"n","o","n","e"," ","x">>, <<"x","y"," ","k","z">>}

-----------------------------------------------------------------------------
(* The data source: download_csv, load_rows, fetch_rows and                *)
(* load_rows_with_fallback.  A file, and an answer of the remote source,   *)
(* is [kind, rows]: kind "csv" parses to rows, kind "corrupt" makes        *)
(* load_rows raise, kind "absent" is no file, kind "down" is a download    *)
(* that fails.                                                             *)

File(kind, rws) == [kind |-> kind, rows |-> rws]

\* the value of fetch_rows: None, or a list of rows
NoRows == [kind |-> "none", rows |-> <<>>]
SomeRows(rws) == [kind |-> "rows", rows |-> rws]

\* Python truthiness of such a value: if rows / if new_rows / if new
TruthyRows(v) == v.kind = "rows" /\ v.rows # <<>>

\* the record sets of the remote sheet over time
GenA == <<Row1, Row2>>
GenB == <<Row3, Row5, Row6>>
Sheets == {<<>>, GenA, GenB}

RemoteAnswers ==
    {File("down", <<>>), File("corrupt", <<>>)} \cup {File("csv", g) : g \in Sheets}

\* LOCAL_CSV as an earlier run can have left it
LocalFiles ==
    {File("absent", <<>>), File("csv", <<>>), File("csv", GenA), File("csv", GenB)}

\* download_csv: [ok, file]; the bytes downloaded replace LOCAL_CSV
download_csv(answer, file) ==
    IF answer.kind = "down"
    THEN [ok |-> FALSE, file |-> file]
    ELSE [ok |-> TRUE, file |-> answer]

\* load_rows: [raised, rows]
load_rows(file) ==
    IF file.kind = "csv"
    THEN [raised |-> FALSE, rows |-> file.rows]
    ELSE [raised |-> TRUE, rows |-> <<>>]

\* fetch_rows: [res, file], res the value returned, file LOCAL_CSV afterwards
fetch_rows(answer, file) ==
    LET d == download_csv(answer, file)
    IN  IF ~d.ok THEN [res |-> NoRows, file |-> d.file]
        ELSE LET l == load_rows(d.file)
             IN  IF l.raised THEN [res |-> NoRows, file |-> d.file]
                 ELSE [res |-> SomeRows(l.rows), file |-> d.file]

\* how load_rows_with_fallback ended
NotLoaded == [kind |-> "notyet", rows |-> <<>>]
Raised == [kind |-> "raised", rows |-> <<>>]
Returned(rws) == [kind |-> "returned", rows |-> rws]

\* load_rows_with_fallback: [end, res, file], end how the call ended, res
\* what its fetch_rows returned
load_rows_with_fallback(answer, file) ==
    LET f == fetch_rows(answer, file)
    IN  IF TruthyRows(f.res)
        THEN [end |-> Returned(f.res.rows), res |-> f.res, file |-> f.file]
        ELSE IF f.file.kind # "absent"
             THEN LET l == load_rows(f.file)
                  IN  [end |-> IF l.raised THEN Raised ELSE Returned(l.rows),
                       res |-> f.res, file |-> f.file]
             ELSE [end |-> Returned(<<>>), res |-> f.res, file |-> f.file]

-----------------------------------------------------------------------------
(* The states in which a part of the model is not running                  *)

NormIdle == text_in = <<>> /\ normalized = <<>> /\ renormalized = <<>>

ConfigIdle == refresh_interval_sec = NoneVal /\ refresh_interval = 0

NoUpdate == [type |-> "none"]
NoOutcome == [kind |-> "none"]

UploadIdle ==
    /\ upload_mode = <<>> /\ clock = 0 /\ ticks = 0
    /\ handled = NoUpdate /\ outcome = NoOutcome /\ last_upload = <<>>

\* _cache = None
NoCache == [present |-> FALSE, timestamp |-> 0, data |-> <<>>]

CacheIdle ==
    /\ CACHE_TTL_SECONDS = 0 /\ _cache = NoCache
    /\ app_file = [kind |-> "absent", rows |-> <<>>]
    /\ app_clock = 0 /\ req = <<>>

ServiceIdle == UploadIdle /\ CacheIdle

RankIdle ==
    /\ problem_text = <<>> /\ in_rows = <<>> /\ top_n = 1
    /\ object_code = NoneVal /\ scored = <<>> /\ result = <<>>
    /\ rkpc = "off"
    /\ object_synonyms = <<>> /\ bot_answer = NoneVal
    /\ NormIdle /\ ConfigIdle /\ ServiceIdle

StoreIdle ==
    /\ prog = "none" /\ localFile = File("absent", <<>>) /\ rows = <<>>
    /\ lock = "free" /\ mpc = "off" /\ tpc = "none" /\ timers = 0
    /\ fetched = NoRows
    /\ current_rows = <<>> /\ seen = <<>> /\ reply = "none"
    /\ everActive = {} /\ loadLocal = File("absent", <<>>)
    /\ loadRemote = File("down", <<>>) /\ loaded = NotLoaded

-----------------------------------------------------------------------------
(* Specification SpecRank: calls of the ranking engine                     *)

InitRank ==
    /\ problem_text \in QueryTexts
    /\ in_rows \in SeqsUpTo(Catalog, MaxRows)
    /\ top_n \in TopValues
    /\ object_code \in ObjectCodes
    /\ scored = <<>> /\ result = <<>>
    /\ rkpc = "input"
    /\ object_synonyms = <<>> /\ bot_answer = NoneVal
    /\ NormIdle /\ ConfigIdle
    /\ StoreIdle /\ ServiceIdle

\* a call find_best_with_object(problem_text, rows, top_n, object_code)
Call_find_best_with_object ==
    /\ rkpc = "input"
    /\ result' = find_best_with_object(problem_text, in_rows, top_n, object_code)
    /\ scored' = SortedScores(problem_text, in_rows, object_code)
    /\ rkpc' = "done"
    /\ UNCHANGED <<problem_text, in_rows, top_n, object_code, object_synonyms,
                   bot_answer, normVars, configVars, storeVars, serviceVars>>

\* a call find_best(problem_text, rows, top_n): no object code is passed on
Call_find_best ==
    /\ rkpc = "input"
    /\ object_code' = NoneVal
    /\ scored' = SortedScores(problem_text, in_rows, NoneVal)
    /\ result' = find_best(problem_text, in_rows, top_n)
    /\ rkpc' = "done"
    /\ UNCHANGED <<problem_text, in_rows, top_n, object_synonyms, bot_answer,
                   normVars, configVars, storeVars, serviceVars>>

\* answer, video_ids, photo_ids = format_result(scored)
Call_format_result ==
    /\ rkpc = "done"
    /\ bot_answer' = format_result(result)
    /\ rkpc' = "formatted"
    /\ UNCHANGED <<problem_text, in_rows, top_n, object_code, scored, result,
                   object_synonyms, normVars, configVars, storeVars, serviceVars>>

NextRank == Call_find_best_with_object \/ Call_find_best \/ Call_format_result

SpecRank == InitRank /\ [][NextRank]_vars

-----------------------------------------------------------------------------
(* Specification SpecDetect: calls of the object detector                  *)

InitDetect ==
    /\ problem_text \in DetectQueries
    /\ object_synonyms \in SynonymTables
    /\ object_code = NoneVal
    /\ in_rows = <<>> /\ top_n = 1 /\ scored = <<>> /\ result = <<>>
    /\ rkpc = "input"
    /\ bot_answer = NoneVal
    /\ NormIdle /\ ConfigIdle
    /\ StoreIdle /\ ServiceIdle

\* obj_code = detect_object_code(query, object_synonyms)
Call_detect_object_code ==
    /\ rkpc = "input"
    /\ object_code' = detect_object_code(problem_text, object_synonyms)
    /\ rkpc' = "detected"
    /\ UNCHANGED <<problem_text, in_rows, top_n, scored, result, object_synonyms,
                   bot_answer, normVars, configVars, storeVars, serviceVars>>

NextDetect == Call_detect_object_code

SpecDetect == InitDetect /\ [][NextDetect]_vars

-----------------------------------------------------------------------------
(* Specification SpecNorm: calls of normalize, on every text of up to      *)
(* MaxLen characters of NormAlphabet and on None                           *)

\* longest text normalize is given
MaxLen == 3

\* a lower-case and an upper-case letter, a digit, the underscore, a
\* punctuation mark, and two whitespace characters
NormAlphabet == {"a", "B", "7", "_", "!", " ", "\t"}

InitNorm ==
    /\ text_in \in SeqsUpTo(NormAlphabet, MaxLen) \cup {NoneVal}
    /\ normalized = <<>> /\ renormalized = <<>>
    /\ rkpc = "input"
    /\ problem_text = <<>> /\ in_rows = <<>> /\ top_n = 1
    /\ object_code = NoneVal /\ scored = <<>> /\ result = <<>>
    /\ object_synonyms = <<>> /\ bot_answer = NoneVal
    /\ ConfigIdle
    /\ StoreIdle /\ ServiceIdle

\* normalize(text)
Call_normalize ==
    /\ rkpc = "input"
    /\ normalized' = Normalized(text_in)
    /\ rkpc' = "normalized"
    /\ UNCHANGED <<text_in, renormalized, problem_text, in_rows, top_n,
                   object_code, scored, result, object_synonyms, bot_answer,
                   configVars, storeVars, serviceVars>>

\* normalize(normalize(text)), when the first call returned
Call_normalize_again ==
    /\ rkpc = "normalized" /\ normalized # AttributeError
    /\ renormalized' = Normalized(normalized)
    /\ rkpc' = "renormalized"
    /\ UNCHANGED <<text_in, normalized, problem_text, in_rows, top_n,
                   object_code, scored, result, object_synonyms, bot_answer,
                   configVars, storeVars, serviceVars>>

NextNorm == Call_normalize \/ Call_normalize_again

SpecNorm == InitNorm /\ [][NextNorm]_vars

-----------------------------------------------------------------------------
(* The refresh interval: get_refresh_interval.  A value of config.json is  *)
(* [kind, n, d, s]: kind "absent" (no such key), "int" (the integer n),    *)
(* "bool" (n is 0 or 1), "float" (the fraction n/d), "inf", "nan", "str"   *)
(* (the text s), "null", "list".                                           *)

DEFAULT_REFRESH_INTERVAL == 1800

\* the literal 60 of max(60, int(val))
MinInterval == 60

\* largest absolute value of the integers of ConfigValues
MaxInterval == 70

CfgValue(kind, n, d, s) == [kind |-> kind, n |-> n, d |-> d, s |-> s]

\* the value of a string of digits; underscores between digits are skipped
RECURSIVE DigitsValue(_, _)
DigitsValue(ds, acc) ==
    IF ds = <<>> THEN acc
    ELSE DigitsValue(Tail(ds),
             IF Head(ds) = "_" THEN acc
             ELSE 10 * acc + (CHOOSE i \in 1..10 : DigitChars[i] = Head(ds)) - 1)

\* int(s) of a str: [raised, n].  Whitespace around is dropped; a sign may
\* lead; then digits, single underscores allowed between them; anything
\* else is a ValueError
ParseInt(s) ==
    LET t      == Strip(s)
        signed == t # <<>> /\ Head(t) \in {"+", "-"}
        ds     == IF signed THEN Tail(t) ELSE t
        ok     == /\ ds # <<>>
                  /\ \A i \in 1..Len(ds) : ds[i] \in Range(DigitChars) \cup {"_"}
                  /\ ds[1] # "_" /\ ds[Len(ds)] # "_"
                  /\ \A i \in 1..(Len(ds) - 1) : ~(ds[i] = "_" /\ ds[i + 1] = "_")
    IN  IF ~ok THEN [raised |-> TRUE, n |-> 0]
        ELSE [raised |-> FALSE,
              n |-> IF signed /\ Head(t) = "-" THEN 0 - DigitsValue(ds, 0)
                    ELSE DigitsValue(ds, 0)]

\* int(val): [raised, n].  An int or a bool is its value, a float is cut
\* towards zero (OverflowError for inf, ValueError for nan), a str is
\* parsed, None and a list are a TypeError
IntOf(val) ==
    CASE val.kind \in {"int", "bool"} -> [raised |-> FALSE, n |-> val.n]
      [] val.kind = "float" ->
            [raised |-> FALSE,
             n |-> IF val.n >= 0 THEN val.n \div val.d
                   ELSE 0 - ((0 - val.n) \div val.d)]
      [] val.kind = "str" -> ParseInt(val.s)
      [] OTHER -> [raised |-> TRUE, n |-> 0]

\* the interval as configured, however small
Unclamped(n) == n

\* max(60, n)
Clamp(n) == Max2(MinInterval, n)

\* get_refresh_interval(config), entry the value of
\* config.get("refresh_interval_sec")
get_refresh_interval(entry) ==
    LET val == IF entry.kind = "absent"
               THEN CfgValue("int", DEFAULT_REFRESH_INTERVAL, 1, <<>>)
               ELSE entry
        i   == IntOf(val)
    IN  IF i.raised THEN DEFAULT_REFRESH_INTERVAL ELSE Clamp(i.n)

ConfigValues ==
    {CfgValue("int", n, 1, <<>>) : n \in (0 - MaxInterval)..MaxInterval \cup {1800, 86400}}
    \cup {CfgValue(k, 0, 1, <<>>) : k \in {"absent", "null", "list", "inf", "nan"}}
    \cup {CfgValue("bool", n, 1, <<>>) : n \in {0, 1}}
    \cup {CfgValue("float", n, 2, <<>>) : n \in {119, 121, -1, -121, 3601}}
    \cup {CfgValue("str", 0, 1, t) :
            t \in {<<"9","0">>, <<" ","4","5"," ">>, <<"-","5">>, <<"+","7","5">>,
                   <<"1","_","0","_","0">>, <<"1","_","_","0">>, <<"6",".","5">>,
                   <<"a","b">>, <<>>}}

-----------------------------------------------------------------------------
(* Specification SpecConfig: calls of get_refresh_interval                 *)

InitConfig ==
    /\ refresh_interval_sec \in ConfigValues
    /\ refresh_interval = 0
    /\ rkpc = "input"
    /\ problem_text = <<>> /\ in_rows = <<>> /\ top_n = 1
    /\ object_code = NoneVal /\ scored = <<>> /\ result = <<>>
    /\ object_synonyms = <<>> /\ bot_answer = NoneVal
    /\ NormIdle
    /\ StoreIdle /\ ServiceIdle

\* refresh_interval = get_refresh_interval(config)
Call_get_refresh_interval ==
    /\ rkpc = "input"
    /\ refresh_interval' = get_refresh_interval(refresh_interval_sec)
    /\ rkpc' = "interval"
    /\ UNCHANGED <<refresh_interval_sec, problem_text, in_rows, top_n,
                   object_code, scored, result, object_synonyms, bot_answer,
                   normVars, storeVars, serviceVars>>

SpecConfig == InitConfig /\ [][Call_get_refresh_interval]_vars

-----------------------------------------------------------------------------
(* The upload-mode sessions of the bot: cmd_upload and handle_upload.  An  *)
(* update is [type, uid, at, ...]: the command /upload, or a message with  *)
(* a video, a video document or a photo (the filter handle_upload is       *)
(* registered with), its caption (a text or NoneVal) and the type of its   *)
(* chat.  Handlers run one at a time on the event loop.                    *)

UPLOAD_TIMEOUT == 300

\* how many times the clock advances
MaxTicks == 2

\* the steps the clock advances by
ClockSteps == {1, UPLOAD_TIMEOUT}

\* update.effective_user.id
Users == {1, 2}

\* context.bot.username, with the @ of a mention
Mention == <<"@", "b", "o", "t">>

MediaKinds == {"video", "document", "photo"}
ChatTypes == {"private", "group", "supergroup"}
GroupChats == {"group", "supergroup"}

Captions ==
    { NoneVal, <<" ">>, <<"q">>, Mention, Mention \o <<" ", "q">>,
      <<"q", " ">> \o Mention }

\* upload_mode.get(uid, 0)
ModeOf(m, uid) == IF uid \in DOMAIN m THEN m[uid] ELSE 0

\* upload_mode[uid] = value
DictSet(m, uid, value) ==
    [k \in DOMAIN m \cup {uid} |-> IF k = uid THEN value ELSE m[k]]

\* str.replace(old, ""): every occurrence of old, left to right, is dropped
RECURSIVE RemoveAll(_, _)
RemoveAll(s, old) ==
    IF s = <<>> THEN <<>>
    ELSE IF Len(old) > 0 /\ Len(s) >= Len(old) /\ SubSeq(s, 1, Len(old)) = old
         THEN RemoveAll(SubSeq(s, Len(old) + 1, Len(s)), old)
         ELSE <<Head(s)>> \o RemoveAll(Tail(s), old)

\* a handler whose window closes one instant early
WithinWindowStrict(t, expiry) == t < expiry

\* if time.time() <= expiry
WithinWindow(t, expiry) == t <= expiry

\* the caption as the query of a message outside the window: <<>> when no
\* search is made
CaptionQuery(cap, chat) ==
    LET caption == Strip(OrEmpty(cap))
    IN  IF caption = <<>> THEN <<>>
        ELSE IF chat \in GroupChats
             THEN IF IsSubstring(Mention, caption)
                  THEN Strip(RemoveAll(caption, Mention))
                  ELSE <<>>
             ELSE caption

\* handle_upload, on a message the filter lets through, at time t
handle_upload(m, uid, t, media, cap, chat) ==
    IF WithinWindow(t, ModeOf(m, uid))
    THEN [kind |-> "file_id",
          label |-> IF media \in {"video", "document"} THEN "Video" ELSE "Foto"]
    ELSE IF CaptionQuery(cap, chat) # <<>>
         THEN [kind |-> "search", query |-> CaptionQuery(cap, chat)]
         ELSE [kind |-> "silent"]

-----------------------------------------------------------------------------
(* Specification SpecUpload: the clock advances, users send /upload and    *)
(* media messages                                                          *)

InitUpload ==
    /\ upload_mode = <<>>
    /\ clock = 1
    /\ ticks = 0
    /\ handled = NoUpdate /\ outcome = NoOutcome
    /\ last_upload = <<>>
    /\ rkpc = "off"
    /\ problem_text = <<>> /\ in_rows = <<>> /\ top_n = 1
    /\ object_code = NoneVal /\ scored = <<>> /\ result = <<>>
    /\ object_synonyms = <<>> /\ bot_answer = NoneVal
    /\ NormIdle /\ ConfigIdle
    /\ StoreIdle /\ CacheIdle

\* time passes
Tick ==
    /\ ticks < MaxTicks
    /\ \E d \in ClockSteps : clock' = clock + d
    /\ ticks' = ticks + 1
    /\ UNCHANGED <<upload_mode, handled, outcome, last_upload>>

\* a user sends /upload
Call_cmd_upload ==
    \E uid \in Users :
        /\ upload_mode' = DictSet(upload_mode, uid, clock + UPLOAD_TIMEOUT)
        /\ last_upload' = DictSet(last_upload, uid, clock)
        /\ handled' = [type |-> "upload", uid |-> uid, at |-> clock]
        /\ outcome' = [kind |-> "mode_on"]
        /\ UNCHANGED <<clock, ticks>>

\* a user sends a video, a video document or a photo
Call_handle_upload ==
    \E uid \in Users, media \in MediaKinds, cap \in Captions,
       chat \in ChatTypes :
        /\ handled' = [type |-> "media", uid |-> uid, at |-> clock,
                       media |-> media, caption |-> cap, chat |-> chat]
        /\ outcome' = handle_upload(upload_mode, uid, clock, media, cap, chat)
        /\ UNCHANGED <<upload_mode, last_upload, clock, ticks>>

NextUpload ==
    \/ Tick /\ UNCHANGED <<problem_text, in_rows, top_n, object_code, scored,
                           result, rkpc, object_synonyms, bot_answer,
                           normVars, configVars, storeVars, cacheVars>>
    \/ Call_cmd_upload /\ UNCHANGED <<problem_text, in_rows, top_n,
                           object_code, scored, result, rkpc, object_synonyms,
                           bot_answer, normVars, configVars, storeVars, cacheVars>>
    \/ Call_handle_upload /\ UNCHANGED <<problem_text, in_rows, top_n,
                           object_code, scored, result, rkpc, object_synonyms,
                           bot_answer, normVars, configVars, storeVars, cacheVars>>

SpecUpload == InitUpload /\ [][NextUpload]_vars

-----------------------------------------------------------------------------
(* The schedule cache of the checklist service: _load_csv_rows,            *)
(* _build_schedule and _get_schedule of checklists/app.py.  A row of the   *)
(* sheet is kept as what _build_schedule reads from it: [date, checklist], *)
(* date the day _parse_date finds (0 when it finds none), checklist the    *)
(* name in the checklist columns ("" when they are empty).  The first row  *)
(* of a sheet is its header.                                               *)

\* largest value of the service's clock
MaxAppClock == 3

\* the request threads of the web server
AppThreads == {1, 2}

\* int(os.environ.get("CHECKLISTS_CACHE_TTL", "0"))
TTLValues == {-1, 0, 1, 2}

DEFAULT_SHEET_TITLE == "Teatr skazok"

\* _is_skipped: the names that contain "provedenie rabot"
_is_skipped(name) == name = "provedenie rabot"

SheetRow(d, name) == [date |-> d, checklist |-> name]

AppSheets ==
    LET hdr == SheetRow(0, "Cheklist")
    IN  { <<>>,
          <<hdr, SheetRow(1, "a"), SheetRow(2, ""), SheetRow(1, "b")>>,
          <<hdr, SheetRow(0, "a"), SheetRow(3, "provedenie rabot")>>,
          <<hdr, SheetRow(3, "c")>> }

\* what a URL of the sheet answers: no answer, bytes that are not text, or
\* a sheet
AppAnswers ==
    {File("down", <<>>), File("corrupt", <<>>)}
        \cup {File("csv", g) : g \in AppSheets}

\* LOCAL_CSV as an earlier run can have left it
AppFiles == {File("absent", <<>>)} \cup {File("csv", g) : g \in AppSheets}

\* one round of the loop of _load_csv_rows: st is [done, err, file, rows]
TryUrl(st, answer) ==
    IF st.done THEN st
    ELSE IF answer.kind = "down" THEN [st EXCEPT !.err = TRUE]
    ELSE IF answer.kind = "corrupt"
         THEN [st EXCEPT !.err = TRUE, !.file = answer]
    ELSE IF answer.rows # <<>>
         THEN [st EXCEPT !.done = TRUE, !.file = answer, !.rows = answer.rows]
    ELSE [st EXCEPT !.file = answer]

\* _load_csv_rows: [res, file], res Raised or Returned(rows)
_load_csv_rows(answer1, answer2, file) ==
    LET st == TryUrl(TryUrl([done |-> FALSE, err |-> FALSE, file |-> file,
                             rows |-> <<>>], answer1), answer2)
    IN  IF st.done THEN [res |-> Returned(st.rows), file |-> st.file]
        ELSE IF st.file.kind = "csv"
             THEN [res |-> Returned(st.file.rows), file |-> st.file]
        ELSE IF st.file.kind = "corrupt" \/ st.err
             THEN [res |-> Raised, file |-> st.file]
        ELSE [res |-> Returned(<<>>), file |-> st.file]

\* sorted(entries.keys(), reverse=True): the entries by date, latest first
RECURSIVE ByDateDescending(_)
ByDateDescending(entries) ==
    IF entries = {} THEN <<>>
    ELSE LET e == CHOOSE x \in entries : \A y \in entries : y.date <= x.date
         IN  <<e>> \o ByDateDescending(entries \ {e})

\* _build_schedule
_build_schedule(rws) ==
    IF rws = <<>> THEN <<>>
    ELSE LET body == Tail(rws)
             name(i) == IF body[i].checklist = "" THEN DEFAULT_SHEET_TITLE
                        ELSE body[i].checklist
             kept(i) == body[i].date # 0 /\ ~_is_skipped(name(i))
             first(i) == kept(i) /\ \A j \in 1..(i - 1) :
                             ~(kept(j) /\ body[j].date = body[i].date)
         IN  ByDateDescending({SheetRow(body[i].date, name(i)) :
                                   i \in {k \in 1..Len(body) : first(k)}})

\* CacheEntry(timestamp, data)
CacheEntry(timestamp, data) ==
    [present |-> TRUE, timestamp |-> timestamp, data |-> data]

\* a cache that also serves an entry just as old as the TTL
FreshInclusive(now, timestamp, ttl) == (now - timestamp) <= ttl

\* (now - _cache.timestamp) < CACHE_TTL_SECONDS
Fresh(now, timestamp, ttl) == (now - timestamp) < ttl

\* _get_schedule up to its fetch: TRUE when it returns _cache.data
ServesCache(c, force_refresh, ttl, now) ==
    IF c.present /\ ~force_refresh
    THEN ttl <= 0 \/ Fresh(now, c.timestamp, ttl)
    ELSE c.present /\ ttl <= 0 /\ ~force_refresh

-----------------------------------------------------------------------------
(* Specification SpecCache: the checklist service answers requests on its  *)
(* threads: /api/schedule and /api/checklist call _get_schedule(),         *)
(* /api/refresh calls _get_schedule(force_refresh=True).  A call is two    *)
(* steps: the tests on _cache, then the return of _cache.data or the end   *)
(* of the fetch.                                                           *)

\* how a request ended: not yet, with an error, or with the schedule
ApiNone == [kind |-> "none", data |-> <<>>]
ApiRaised == [kind |-> "raised", data |-> <<>>]
ApiData(data) == [kind |-> "data", data |-> data]

Request(pc, force_refresh, fetch, res) ==
    [pc |-> pc, force |-> force_refresh, fetch |-> fetch, res |-> res]

InitCache ==
    /\ CACHE_TTL_SECONDS \in TTLValues
    /\ _cache = NoCache
    /\ app_file \in AppFiles
    /\ app_clock = 1
    /\ req = [t \in AppThreads |-> Request("idle", FALSE, "none", ApiNone)]
    /\ rkpc = "off"
    /\ problem_text = <<>> /\ in_rows = <<>> /\ top_n = 1
    /\ object_code = NoneVal /\ scored = <<>> /\ result = <<>>
    /\ object_synonyms = <<>> /\ bot_answer = NoneVal
    /\ NormIdle /\ ConfigIdle
    /\ StoreIdle /\ UploadIdle

\* time passes
AppTick ==
    /\ app_clock < MaxAppClock
    /\ app_clock' = app_clock + 1
    /\ UNCHANGED <<CACHE_TTL_SECONDS, _cache, app_file, req>>

\* _get_schedule(force_refresh), lines 180-187: the tests on _cache
Call_get_schedule(t, force_refresh) ==
    /\ req[t].pc = "idle"
    /\ req' = [req EXCEPT ![t] =
                 Request(IF ServesCache(_cache, force_refresh,
                                        CACHE_TTL_SECONDS, app_clock)
                         THEN "returning" ELSE "fetching",
                         force_refresh, "none", ApiNone)]
    /\ UNCHANGED <<CACHE_TTL_SECONDS, _cache, app_file, app_clock>>

\* /api/schedule, /api/checklist
api_schedule == \E t \in AppThreads : Call_get_schedule(t, FALSE)

\* /api/refresh
api_refresh == \E t \in AppThreads : Call_get_schedule(t, TRUE)

\* return _cache.data
ReturnCached ==
    \E t \in AppThreads :
        /\ req[t].pc = "returning"
        /\ req' = [req EXCEPT ![t] =
                     Request("idle", req[t].force, "none", ApiData(_cache.data))]
        /\ UNCHANGED <<CACHE_TTL_SECONDS, _cache, app_file, app_clock>>

\* lines 189-192: _load_csv_rows raises, or the schedule built from its
\* rows becomes the cache entry and is returned
FetchDone ==
    \E t \in AppThreads, answer1 \in AppAnswers, answer2 \in AppAnswers :
        /\ req[t].pc = "fetching"
        /\ LET l == _load_csv_rows(answer1, answer2, app_file)
               data == _build_schedule(l.res.rows)
           IN  /\ app_file' = l.file
               /\ IF l.res = Raised
                  THEN /\ _cache' = _cache
                       /\ req' = [req EXCEPT ![t] =
                             Request("idle", req[t].force, "raised", ApiRaised)]
                  ELSE /\ _cache' = CacheEntry(app_clock, data)
                       /\ req' = [req EXCEPT ![t] =
                             Request("idle", req[t].force, "rows", ApiData(data))]
        /\ UNCHANGED <<CACHE_TTL_SECONDS, app_clock>>

NextCache ==
    \/ AppTick /\ UNCHANGED <<problem_text, in_rows, top_n, object_code,
                              scored, result, rkpc, object_synonyms,
                              bot_answer, normVars, configVars, storeVars,
                              uploadVars>>
    \/ api_schedule /\ UNCHANGED <<problem_text, in_rows, top_n, object_code,
                              scored, result, rkpc, object_synonyms,
                              bot_answer, normVars, configVars, storeVars,
                              uploadVars>>
    \/ api_refresh /\ UNCHANGED <<problem_text, in_rows, top_n, object_code,
                              scored, result, rkpc, object_synonyms,
                              bot_answer, normVars, configVars, storeVars,
                              uploadVars>>
    \/ ReturnCached /\ UNCHANGED <<problem_text, in_rows, top_n, object_code,
                              scored, result, rkpc, object_synonyms,
                              bot_answer, normVars, configVars, storeVars,
                              uploadVars>>
    \/ FetchDone /\ UNCHANGED <<problem_text, in_rows, top_n, object_code,
                              scored, result, rkpc, object_synonyms,
                              bot_answer, normVars, configVars, storeVars,
                              uploadVars>>

SpecCache == InitCache /\ [][NextCache]_vars

-----------------------------------------------------------------------------
(* Specification Spec: a running program and its record store.  prog says  *)
(* which program runs: the interactive CLI (search_solution.main, with the *)
(* timer thread of start_background_refresh), the CLI given its query on   *)
(* the command line, or the bot (bot.main, whose handlers run one at a     *)
(* time on one event loop).                                                *)

Init ==
    /\ prog \in {"cli", "cli_once", "bot"}
    /\ localFile \in LocalFiles
    /\ rows = <<>>
    /\ lock = "free"
    /\ mpc = "start"
    /\ tpc = "none"
    /\ timers = 0
    /\ fetched = NoRows
    /\ current_rows = <<>> /\ seen = <<>> /\ reply = "none"
    /\ everActive = {}
    /\ loadLocal = localFile
    /\ loadRemote = File("down", <<>>)
    /\ loaded = NotLoaded
    /\ RankIdle

\* the test that guards the swap: if new_rows / if new, None and [] alike
SwapsEvenWhenEmpty(v) == v.kind = "rows"

ShouldSwap(v) == TruthyRows(v)

\* the timer armed only after a refresh that brought rows
RearmsOnlyOnSuccess(v) == TruthyRows(v)

\* _refresh arms the next timer outside the if: whatever the fetch returned
Rearms(v) == TRUE

\* a query that reads the shared reference anew for every row it scores
QueryRowsShared == rows

\* the rows a running query ranks: the reference it was handed
QueryRows == current_rows

\* a _refresh that starts a timer before its fetch and another after it
StartedTwice(n) == n + 2

\* t = threading.Timer(refresh_interval, _refresh); t.start(): one more
\* timer is pending
Started(n) == n + 1

\* a caller that ranks whatever it has
NoDataNever(rws) == FALSE

\* if not rows: the test of main and of _search_and_reply before any ranking
NoData(rws) == rws = <<>>

\* a query path that sorts the list it was handed, not a list of its own
RowsSortedInPlace(rws) == [i \in 1..Len(rws) |-> rws[Len(rws) + 1 - i]]

\* what a query leaves of the list it ranks: find_best_with_object iterates
\* rows, appends (best_score, row) to its own list scored, sorts and slices
\* that list; the formatters read fields of the rows.  Nothing is assigned
\* into rows or into a row.
RowsAfterQuery(rws) == rws

\* main() up to the prompt / up to run_polling: the initial load.  The CLI
\* exits without data; otherwise it ranks the query of its command line, or
\* starts the background refresh and prompts.  The bot goes on polling with
\* whatever it has.  An exception of the load is not caught by either main.
LoadInitial(answer) ==
    /\ mpc = "start"
    /\ LET r == load_rows_with_fallback(answer, localFile)
       IN  /\ localFile' = r.file
           /\ fetched' = r.res
           /\ loadRemote' = answer
           /\ loaded' = r.end
           /\ IF r.end.kind = "raised"
              THEN /\ mpc' = "crashed"
                   /\ UNCHANGED <<rows, tpc, timers, everActive, current_rows>>
              ELSE /\ rows' = r.end.rows
                   /\ everActive' = {r.end.rows}
                   /\ IF prog = "bot"
                      THEN mpc' = "polling" /\ UNCHANGED <<tpc, timers, current_rows>>
                      ELSE IF NoData(r.end.rows)
                           THEN mpc' = "nodata" /\ UNCHANGED <<tpc, timers, current_rows>>
                           ELSE IF prog = "cli_once"
                                THEN /\ mpc' = "q_rank"
                                     /\ current_rows' = r.end.rows
                                     /\ tpc' = tpc /\ timers' = timers
                                ELSE /\ mpc' = "prompt" /\ tpc' = "armed"
                                     /\ timers' = Started(timers)
                                     /\ current_rows' = current_rows
    /\ UNCHANGED <<prog, lock, seen, reply, loadLocal, rankVars>>

\* the process of the CLI lives until main returns; its timers are daemons
CliAlive == prog = "cli" /\ mpc \in {"prompt", "q_acquire", "q_read", "q_release", "q_rank"}

\* ---- the timer thread: _refresh

\* the timer fires: _refresh begins with the fetch
TimerFire ==
    /\ CliAlive /\ tpc = "armed" /\ timers > 0
    /\ tpc' = "fetching"
    /\ timers' = timers - 1
    /\ UNCHANGED <<prog, localFile, rows, lock, mpc, fetched, current_rows, seen,
                   reply, everActive, loadLocal, loadRemote, loaded, rankVars>>

\* fetch_rows returns (a download that times out fails)
TimerFetchDone(answer) ==
    /\ CliAlive /\ tpc = "fetching"
    /\ LET f == fetch_rows(answer, localFile)
       IN  /\ localFile' = f.file
           /\ fetched' = f.res
           /\ tpc' = IF ShouldSwap(f.res) THEN "acquire" ELSE "rearm"
    /\ UNCHANGED <<prog, timers, rows, lock, mpc, current_rows, seen, reply, everActive,
                   loadLocal, loadRemote, loaded, rankVars>>

\* with lock:
TimerAcquire ==
    /\ CliAlive /\ tpc = "acquire" /\ lock = "free"
    /\ lock' = "timer" /\ tpc' = "assign"
    /\ UNCHANGED <<prog, timers, localFile, rows, mpc, fetched, current_rows, seen, reply,
                   everActive, loadLocal, loadRemote, loaded, rankVars>>

\* shared["rows"] = new_rows
TimerAssign ==
    /\ CliAlive /\ tpc = "assign"
    /\ rows' = fetched.rows
    /\ everActive' = everActive \cup {fetched.rows}
    /\ tpc' = "release"
    /\ UNCHANGED <<prog, timers, localFile, lock, mpc, fetched, current_rows, seen, reply,
                   loadLocal, loadRemote, loaded, rankVars>>

\* the end of the with block
TimerRelease ==
    /\ CliAlive /\ tpc = "release"
    /\ lock' = "free" /\ tpc' = "rearm"
    /\ UNCHANGED <<prog, timers, localFile, rows, mpc, fetched, current_rows, seen, reply,
                   everActive, loadLocal, loadRemote, loaded, rankVars>>

\* schedule next: threading.Timer(refresh_interval, _refresh).start()
TimerRearm ==
    /\ CliAlive /\ tpc = "rearm"
    /\ tpc' = IF Rearms(fetched) THEN "armed" ELSE "stopped"
    /\ timers' = IF Rearms(fetched) THEN Started(timers) ELSE timers
    /\ UNCHANGED <<prog, localFile, rows, lock, mpc, fetched, current_rows, seen,
                   reply, everActive, loadLocal, loadRemote, loaded, rankVars>>

\* ---- the main thread of the CLI: the input loop

\* input() returns a query
CliInputQuery ==
    /\ prog = "cli" /\ mpc = "prompt"
    /\ mpc' = "q_acquire"
    /\ UNCHANGED <<prog, timers, localFile, rows, lock, tpc, fetched, current_rows, seen,
                   reply, everActive, loadLocal, loadRemote, loaded, rankVars>>

\* input() returns an empty line or the input ends: main returns
CliInputEnd ==
    /\ prog = "cli" /\ mpc = "prompt"
    /\ mpc' = "exited"
    /\ UNCHANGED <<prog, timers, localFile, rows, lock, tpc, fetched, current_rows, seen,
                   reply, everActive, loadLocal, loadRemote, loaded, rankVars>>

\* with lock:
CliAcquire ==
    /\ prog = "cli" /\ mpc = "q_acquire" /\ lock = "free"
    /\ lock' = "main" /\ mpc' = "q_read"
    /\ UNCHANGED <<prog, timers, localFile, rows, tpc, fetched, current_rows, seen, reply,
                   everActive, loadLocal, loadRemote, loaded, rankVars>>

\* current_rows = shared["rows"]
CliRead ==
    /\ prog = "cli" /\ mpc = "q_read"
    /\ current_rows' = rows
    /\ mpc' = "q_release"
    /\ UNCHANGED <<prog, timers, localFile, rows, lock, tpc, fetched, seen, reply,
                   everActive, loadLocal, loadRemote, loaded, rankVars>>

\* the end of the with block; find_best_with_object is called
CliRelease ==
    /\ prog = "cli" /\ mpc = "q_release"
    /\ lock' = "free" /\ mpc' = "q_rank" /\ seen' = <<>>
    /\ UNCHANGED <<prog, timers, localFile, rows, tpc, fetched, current_rows, reply,
                   everActive, loadLocal, loadRemote, loaded, rankVars>>

\* one turn of  for row in rows  of find_best_with_object (CLI and bot)
RankStep ==
    /\ mpc = "q_rank" /\ Len(seen) < Len(QueryRows)
    /\ seen' = Append(seen, QueryRows[Len(seen) + 1])
    /\ UNCHANGED <<prog, timers, localFile, rows, lock, mpc, tpc, fetched, current_rows,
                   reply, everActive, loadLocal, loadRemote, loaded, rankVars>>

\* find_best_with_object returns; print(format_answer(scored)); the CLI
\* given its query on the command line returns.  The list ranked is the
\* active one unless a refresh has replaced that in the meantime.
CliPrint ==
    /\ prog \in {"cli", "cli_once"} /\ mpc = "q_rank" /\ Len(seen) >= Len(QueryRows)
    /\ mpc' = (IF prog = "cli" THEN "prompt" ELSE "exited")
    /\ reply' = "answer"
    /\ rows' = (IF rows = current_rows THEN RowsAfterQuery(rows) ELSE rows)
    /\ UNCHANGED <<prog, timers, localFile, lock, tpc, fetched, current_rows, seen,
                   everActive, loadLocal, loadRemote, loaded, rankVars>>

\* ---- the handlers of the bot, one at a time on the event loop

\* cmd_reload calls refresh_rows, which calls fetch_rows on the event loop
BotReloadStart ==
    /\ prog = "bot" /\ mpc = "polling"
    /\ mpc' = "reload_fetch"
    /\ UNCHANGED <<prog, timers, localFile, rows, lock, tpc, fetched, current_rows, seen,
                   reply, everActive, loadLocal, loadRemote, loaded, rankVars>>

\* fetch_rows returns; refresh_rows: if new: rows = new; cmd_reload replies
BotReloadDone(answer) ==
    /\ prog = "bot" /\ mpc = "reload_fetch"
    /\ LET f == fetch_rows(answer, localFile)
       IN  /\ localFile' = f.file
           /\ fetched' = f.res
           /\ rows' = IF ShouldSwap(f.res) THEN f.res.rows ELSE rows
           /\ everActive' = IF ShouldSwap(f.res) THEN everActive \cup {f.res.rows}
                            ELSE everActive
    /\ mpc' = "polling"
    /\ UNCHANGED <<prog, timers, lock, tpc, current_rows, seen, reply, loadLocal,
                   loadRemote, loaded, rankVars>>

\* _search_and_reply: without rows the "no data" reply; with rows
\* find_best_with_object(query, rows, TOP_N, obj_code) is called
BotQuery ==
    /\ prog = "bot" /\ mpc = "polling"
    /\ IF NoData(rows)
       THEN /\ reply' = "nodata"
            /\ UNCHANGED <<mpc, current_rows, seen>>
       ELSE /\ current_rows' = rows
            /\ seen' = <<>>
            /\ mpc' = "q_rank"
            /\ reply' = reply
    /\ UNCHANGED <<prog, timers, localFile, rows, lock, tpc, fetched, everActive,
                   loadLocal, loadRemote, loaded, rankVars>>

\* find_best_with_object returns; reply_text(answer)
BotReply ==
    /\ prog = "bot" /\ mpc = "q_rank" /\ Len(seen) >= Len(QueryRows)
    /\ mpc' = "polling" /\ reply' = "answer"
    /\ rows' = (IF rows = current_rows THEN RowsAfterQuery(rows) ELSE rows)
    /\ UNCHANGED <<prog, timers, localFile, lock, tpc, fetched, current_rows, seen,
                   everActive, loadLocal, loadRemote, loaded, rankVars>>

TimerFetch == \E answer \in RemoteAnswers : TimerFetchDone(answer)

Next ==
    \/ \E answer \in RemoteAnswers : LoadInitial(answer)
    \/ TimerFire
    \/ TimerFetch
    \/ TimerAcquire
    \/ TimerAssign
    \/ TimerRelease
    \/ TimerRearm
    \/ CliInputQuery
    \/ CliInputEnd
    \/ CliAcquire
    \/ CliRead
    \/ CliRelease
    \/ RankStep
    \/ CliPrint
    \/ BotReloadStart
    \/ \E answer \in RemoteAnswers : BotReloadDone(answer)
    \/ BotQuery
    \/ BotReply

Spec == Init /\ [][Next]_vars

\* The timer thread runs whenever it can: a timer fires once its interval
\* has passed, urlopen returns within its timeout, and the lock, held by the
\* main thread only to read one reference, is obtained in the end.  The main
\* thread leaves its with block, and a query that is being ranked is answered.
\* What the user does is under no fairness.
Fairness ==
    /\ WF_vars(TimerFire)
    /\ WF_vars(TimerFetch)
    /\ SF_vars(TimerAcquire)
    /\ WF_vars(TimerAssign)
    /\ WF_vars(TimerRelease)
    /\ WF_vars(TimerRearm)
    /\ WF_vars(CliRead)
    /\ WF_vars(CliRelease)
    /\ WF_vars(\E answer \in RemoteAnswers : LoadInitial(answer))
    /\ WF_vars(\E answer \in RemoteAnswers : BotReloadDone(answer))
    /\ WF_vars(RankStep)
    /\ WF_vars(CliPrint)
    /\ WF_vars(BotReply)

LiveSpec == Init /\ [][Next]_vars /\ Fairness

-----------------------------------------------------------------------------
(* Properties of the record store (checked under Spec and LiveSpec)        *)

\* a refresh path's call of fetch_rows is waiting for the network
FetchInProgress == (CliAlive /\ tpc = "fetching") \/ mpc = "reload_fetch"

\* this step is the return of fetch_rows to a refresh path
RefreshReturns ==
    \/ tpc = "fetching" /\ tpc' # "fetching"
    \/ mpc = "reload_fetch" /\ mpc' # "reload_fetch"

\* C1: in both refresh paths a fetch that fails or yields no rows leaves the
\* active set as it was, a fetch that yields rows replaces it by exactly those
\* rows, and the active set is always a complete fetched set or the set the
\* initial load left, never emptied and never a part of a set
C1_RefreshAllOrNothing ==
    /\ [](rows \in (Sheets \ {<<>>}) \cup {loaded.rows})
    /\ [][/\ (RefreshReturns /\ ~TruthyRows(fetched'))
                => (rows' = rows /\ tpc' \notin {"acquire", "assign", "release"})
          /\ (RefreshReturns /\ TruthyRows(fetched'))
                => IF prog = "bot" THEN rows' = fetched'.rows ELSE tpc' = "acquire"
          /\ (tpc = "assign" /\ tpc' # "assign") => rows' = fetched.rows
          /\ (mpc # "start" /\ rows' # rows)
                => (TruthyRows(fetched') /\ rows' = fetched'.rows)
          /\ rows # <<>> => rows' # <<>>]_vars

C1_Witness ==
    /\ tpc = "rearm" /\ fetched = SomeRows(<<>>)
    /\ rows # <<>> /\ Cardinality(everActive) >= 2

IsPrefix(a, b) == Len(a) <= Len(b) /\ SubSeq(b, 1, Len(a)) = a

\* C2: whatever the interleaving with a swap, the rows a query scores are
\* the rows of one record set that was the active one when the query read
\* the reference: a prefix of it while the query runs, all of it at the end
C2_QuerySeesOneGeneration ==
    /\ mpc = "q_rank" => (current_rows \in everActive /\ IsPrefix(seen, current_rows))
    /\ (mpc \in {"prompt", "polling", "exited"} /\ reply = "answer")
          => (current_rows \in everActive /\ seen = current_rows)

C2_Witness ==
    /\ mpc = "q_rank" /\ rows # current_rows
    /\ Len(seen) > 0 /\ Len(seen) < Len(current_rows)

\* a step of the query path
QueryStep ==
    \/ CliInputQuery \/ CliAcquire \/ CliRead \/ CliRelease
    \/ RankStep \/ CliPrint \/ BotQuery \/ BotReply

\* C3 as claimed: while the fetch of a refresh (timer or /reload) is in
\* progress the refresh holds no lock and the query path can take a step
C3_FetchNeverBlocksReaders ==
    FetchInProgress => (lock # "timer" /\ ENABLED QueryStep)

\* the remote source answered the initial load with a non-empty record set
RemoteGood == loadRemote.kind = "csv" /\ loadRemote.rows # <<>>

\* C4 as claimed: the initial load never raises; it returns the fetched set
\* when that is non-empty, otherwise the record set LOCAL_CSV held before the
\* load when there was a readable one, otherwise the empty set
C4_LoadFallback ==
    loaded.kind # "notyet" =>
        /\ loaded.kind = "returned"
        /\ RemoteGood => loaded.rows = loadRemote.rows
        /\ (~RemoteGood /\ loadLocal.kind = "csv") => loaded.rows = loadLocal.rows
        /\ (~RemoteGood /\ loadLocal.kind # "csv") => loaded.rows = <<>>

\* C5: once the background refresh is started, every attempt, whatever its
\* fetch returned, is followed by the arming of the next timer, and attempts
\* occur again and again for as long as the process lives
C5_RefreshChain ==
    /\ (tpc = "fetching") ~> (tpc = "armed" \/ ~CliAlive)
    /\ []<>(tpc \in {"fetching", "none"} \/ mpc = "exited")

C5_Witness == CliAlive /\ tpc = "armed" /\ fetched = NoRows /\ loadRemote.kind = "csv"

\* a long-running program is up and answers queries
Running ==
    /\ prog \in {"cli", "bot"}
    /\ mpc \in {"prompt", "q_acquire", "q_read", "q_release", "q_rank",
                 "polling", "reload_fetch"}

\* C6 as claimed: in the running bot and in the running CLI, after a fetch
\* that failed or brought nothing another refresh attempt takes place
C6_FailedFetchRetried ==
    []((Running /\ ~TruthyRows(fetched))
          => <>(tpc = "fetching" \/ mpc = "reload_fetch" \/ ~Running))

\* C12: no step of the query path (reading the reference, ranking it with
\* find_best_with_object, formatting and sending the answer) changes the
\* active record set or a row of it, nor the list the query ranks; the active
\* set changes only by the assignment of a whole fetched list in the initial
\* load or in a refresh
C12_QueryPathReadsOnly ==
    [][/\ QueryStep => /\ rows' = rows
                       /\ current_rows' \in {current_rows, rows}
       /\ rows' # rows => \/ mpc = "start" /\ rows' = loaded'.rows
                          \/ tpc = "assign" /\ rows' = fetched.rows
                          \/ mpc = "reload_fetch" /\ rows' = fetched'.rows]_vars

C12_Witness ==
    /\ reply = "answer" /\ mpc \in {"prompt", "polling", "exited"}
    /\ rows = current_rows /\ seen = rows /\ Len(rows) >= 2

\* C13: find_best_with_object is only ever ranking a non-empty record set;
\* the CLI whose load returned no rows exits with "no data" and has ranked
\* nothing, and a query put to the bot while its active set is empty is
\* answered "no data" without ranking
C13_NoRankingOfEmptyBase ==
    /\ [](mpc = "q_rank" => current_rows # <<>>)
    /\ []((prog \in {"cli", "cli_once"} /\ loaded.kind = "returned"
             /\ loaded.rows = <<>>) => (mpc = "nodata" /\ reply = "none"))
    /\ []((prog = "bot" /\ mpc = "polling" /\ rows = <<>>)
             => ENABLED (BotQuery /\ reply' = "nodata"))
    /\ [][(prog = "bot" /\ rows = <<>>)
             => (mpc' # "q_rank" /\ reply' \in {reply, "nodata"})]_vars

C13_Witness ==
    /\ prog = "bot" /\ mpc = "polling" /\ loaded = Returned(<<>>)
    /\ rows = <<>> /\ reply = "nodata" /\ fetched = SomeRows(<<>>)

\* the executions of _refresh in progress
Executing ==
    IF tpc \in {"fetching", "acquire", "assign", "release", "rearm"} THEN 1 ELSE 0

\* C20: once start_background_refresh has been called, at most one refresh
\* attempt is pending or executing at any moment; a timer is started only by
\* start_background_refresh and by the last step of a running attempt, one
\* at a time; LOCAL_CSV and the shared reference are written only by the one
\* attempt that is executing
C20_OneRefreshAtATime ==
    /\ [](timers + Executing <= 1)
    /\ [](tpc = "armed" => timers = 1)
    /\ [][/\ timers' > timers =>
                /\ timers' = timers + 1
                /\ mpc = "start" \/ (tpc = "rearm" /\ Executing' = 0)
          /\ (CliAlive /\ (localFile' # localFile \/ rows' # rows))
                => (Executing = 1 /\ timers = 0)]_vars

C20_Witness ==
    /\ CliAlive /\ tpc = "fetching" /\ timers = 0
    /\ Cardinality(everActive) >= 2 /\ mpc = "q_rank"

\* C17: whatever the initial load, the background refreshes, the /reload
\* refreshes and the queries do, an active record set that is not empty is
\* never followed by an empty one
C17_EmptyToReady == [][rows # <<>> => rows' # <<>>]_vars

C17_Witness ==
    /\ prog = "bot" /\ mpc = "polling" /\ reply = "answer"
    /\ loaded = Returned(<<>>) /\ Cardinality(everActive) >= 3
    /\ rows # <<>> /\ fetched = NoRows

-----------------------------------------------------------------------------
(* Properties of the ranking engine (checked under SpecRank)               *)

\* the rows of in_rows that pass the scope filter of the call
InScope == {i \in 1..Len(in_rows) : PassesFilter(in_rows[i], object_code)}

\* the number of entries the call returns at most by its top_n
Wanted == Max2(top_n, 1)

\* C7 as claimed: the call returns at most len(records) entries and at least
\* min(max(top_n,1), len(records)) entries, whatever the object code
C7_LengthBoundsAsClaimed ==
    rkpc = "done" =>
        /\ Len(result) <= Len(in_rows)
        /\ Len(result) >= Min2(Wanted, Len(in_rows))

\* C7 (amended): the call returns at most len(records) entries and at least
\* min(max(top_n,1), m) entries, m the number of records that pass the scope
\* filter; m = len(records) when the object code is None or empty
C7_LengthBounds ==
    rkpc = "done" =>
        /\ Len(result) <= Len(in_rows)
        /\ Len(result) >= Min2(Wanted, Cardinality(InScope))
        /\ ~Truthy(object_code) => Len(result) >= Min2(Wanted, Len(in_rows))

C7_Witness ==
    /\ rkpc = "done" /\ top_n <= 0 /\ Truthy(object_code)
    /\ Len(in_rows) = 2 /\ Len(result) = 1

\* C8 as claimed: with a non-None object code (the empty string included)
\* every returned record's own normalized object code equals the normalized
\* requested code, and nothing is returned when no record carries the code
C8_ScopeRespected ==
    (rkpc = "done" /\ object_code # NoneVal) =>
        /\ \A k \in 1..Len(result) :
              _get_object_code(in_rows[result[k][2]]) = normalize(object_code)
        /\ (\A i \in 1..Len(in_rows) :
                _get_object_code(in_rows[i]) # normalize(object_code))
           => result = <<>>

\* C9: the returned entries are sorted by score descending, entries of equal
\* score keep the order of the input, and they are the first max(top_n,1) of
\* that ordering of all the records in scope
C9_SortedStableTop ==
    rkpc = "done" =>
        /\ {scored[k][2] : k \in 1..Len(scored)} = InScope
        /\ Len(scored) = Cardinality(InScope)
        /\ \A k \in 1..(Len(scored) - 1) :
              /\ ScoreLeq(scored[k + 1][1], scored[k][1])
              /\ ScoreEq(scored[k + 1][1], scored[k][1])
                    => scored[k][2] < scored[k + 1][2]
        /\ result = SubSeq(scored, 1, Min2(Wanted, Len(scored)))
        /\ \A k \in 1..(Len(result) - 1) :
              ScoreLeq(result[k + 1][1], result[k][1])
        /\ \A k \in 1..Len(result) : \A j \in (Len(result) + 1)..Len(scored) :
              ~ScoreLt(result[k][1], scored[j][1])

C9_Witness ==
    /\ rkpc = "done" /\ Len(result) = 2
    /\ ScoreEq(result[1][1], result[2][1]) /\ ScoreLt(ScoreZero, result[1][1])
    /\ result[1][2] = 1 /\ in_rows[1] # in_rows[2]

\* the non-empty candidate phrases of a row that contain the needle
Containing(needle, row) ==
    {k \in 1..Len(Candidates(row)) :
        /\ Truthy(Candidates(row)[k])
        /\ needle # <<>>
        /\ IsSubstring(needle, normalize(Candidates(row)[k]))}

\* C10: a candidate phrase whose normalized form contains the non-empty
\* normalized query scores at least 0.95, and so does a ranked record that
\* has such a phrase
C10_SubstringFloor ==
    rkpc = "done" =>
        LET needle == normalize(problem_text)
        IN  /\ \A i \in 1..Len(in_rows) : \A k \in Containing(needle, in_rows[i]) :
                  ScoreLeq(SubstringFloor, CandScore(needle, Candidates(in_rows[i])[k]))
            /\ \A e \in Range(scored) :
                  Containing(needle, in_rows[e[2]]) # {}
                      => ScoreLeq(SubstringFloor, e[1])

C10_Witness ==
    /\ rkpc = "done"
    /\ \E e \in Range(result) : \E k \in Containing(normalize(problem_text), in_rows[e[2]]) :
          /\ ScoreLt(similarity(normalize(problem_text),
                                normalize(Candidates(in_rows[e[2]])[k])),
                     SubstringFloor)
          /\ ScoreEq(e[1], SubstringFloor)

\* the pieces of the field "zaprosy": the stretches of text between
\* separators (| ; / newline . ! ?), trimmed, the empty ones left out
QueryPieces(q) ==
    IF ~Truthy(q) THEN {}
    ELSE {Strip(SubSeq(q, p[1], p[2])) :
            p \in {u \in (1..Len(q)) \X (1..Len(q)) :
                     /\ u[1] <= u[2]
                     /\ \A k \in u[1]..u[2] : ~IsSeparator(q[k])
                     /\ u[1] = 1 \/ IsSeparator(q[u[1] - 1])
                     /\ u[2] = Len(q) \/ IsSeparator(q[u[2] + 1])}} \ {<<>>}

\* the non-empty candidate phrases of a row: its problem text and the pieces
\* of its extra queries
Phrases(row) ==
    LET problem == _get_field_case_insensitive(row, F_Problema)
    IN  (IF problem # <<>> THEN {problem} ELSE {})
            \cup QueryPieces(_get_field_case_insensitive(row, F_zaprosy))

\* C18: the score of a ranked record is the greatest score, the substring
\* floor applied, of its non-empty candidate phrases; it is exactly 0 when
\* the record has no such phrase; it lies between 0 and 1
C18_RecordScoreIsBestPhrase ==
    rkpc = "done" =>
        \A e \in Range(scored) :
            LET needle == normalize(problem_text)
                P      == Phrases(in_rows[e[2]])
            IN  /\ P = {} => e[1] = <<0, 1>>
                /\ P # {} =>
                      /\ \E c \in P : ScoreEq(e[1], CandScore(needle, c))
                      /\ \A c \in P : ScoreLeq(CandScore(needle, c), e[1])
                /\ ScoreLeq(ScoreZero, e[1]) /\ ScoreLeq(e[1], ScoreOne)

C18_Witness ==
    /\ rkpc = "done"
    /\ \E e \in Range(scored) : Phrases(in_rows[e[2]]) = {}
    /\ \E e \in Range(scored) :
          /\ Cardinality(Phrases(in_rows[e[2]])) >= 3
          /\ ScoreLt(CandScore(normalize(problem_text),
                               _get_field_case_insensitive(in_rows[e[2]], F_Problema)),
                     e[1])

\* the returned entries that reach MIN_SCORE
GoodEnough == {k \in 1..Len(result) : ScoreLeq(MIN_SCORE, result[k][1])}

\* C16: find_best_with_object drops no record in scope for its score: every
\* one is ranked and the first max(top_n,1) of them are returned, a score of
\* 0 included; the threshold is format_result's, which answers "not found"
\* exactly when no returned entry reaches MIN_SCORE and otherwise reports
\* the first returned entry that does
C16_ThresholdIsTheCallers ==
    /\ rkpc \in {"done", "formatted"} =>
          /\ \A i \in InScope : \E k \in 1..Len(scored) : scored[k][2] = i
          /\ Len(result) = Min2(Wanted, Cardinality(InScope))
          /\ result = SubSeq(scored, 1, Len(result))
    /\ rkpc = "formatted" =>
          IF GoodEnough = {} THEN bot_answer.kind = "not_found"
          ELSE /\ bot_answer.kind = "found"
               /\ \E k \in GoodEnough :
                     /\ \A j \in GoodEnough : k <= j
                     /\ bot_answer.row = result[k][2]
                     /\ bot_answer.score = result[k][1]

C16_Witness ==
    /\ rkpc = "formatted" /\ bot_answer.kind = "not_found"
    /\ Len(result) = 2 /\ ScoreEq(result[2][1], ScoreZero)
    /\ ScoreLt(ScoreZero, result[1][1])

-----------------------------------------------------------------------------
(* Properties of the object detector (checked under SpecDetect)            *)

\* the candidates of entry i of the table: its aliases, then its code
EntryCandidates(i) ==
    Append(object_synonyms[i][2].items, object_synonyms[i][1])

\* the normal form of candidate p[2] of entry p[1]
MatchForm(p) == normalize(Str(EntryCandidates(p[1])[p[2]]))

\* the candidates <<i, j>> of the entries in E whose normal form is not
\* empty and occurs in the normalized query
Matching(E) ==
    {p \in UNION {{<<i, j>> : j \in 1..Len(EntryCandidates(i))} : i \in E} :
        /\ MatchForm(p) # <<>>
        /\ IsSubstring(MatchForm(p), normalize(problem_text))}

\* the matching candidates of greatest normalized length
Longest(E) ==
    {p \in Matching(E) : \A q \in Matching(E) : Len(MatchForm(q)) <= Len(MatchForm(p))}

\* the detector returned None when nothing in E matches, and otherwise the
\* code of the first entry of the table that has a longest match
DetectedAmong(E) ==
    IF Matching(E) = {} THEN object_code = NoneVal
    ELSE /\ object_code # NoneVal
         /\ \E p \in Longest(E) :
               /\ object_code = object_synonyms[p[1]][1]
               /\ \A q \in Longest(E) : p[1] <= q[1]

\* the entries of the table whose value is a list
ListEntries == {i \in 1..Len(object_synonyms) : object_synonyms[i][2].list}

\* C11 as claimed: None is returned exactly when no alias and no code of the
\* table, normalized and non-empty, occurs in the normalized query; otherwise
\* the code with the longest matching alias, the first in table order on ties
C11_LongestAliasAsClaimed ==
    rkpc = "detected" => DetectedAmong(1..Len(object_synonyms))

\* C11 (amended): the same over the entries of the table whose value is a
\* list of aliases; an entry with any other value is ignored, code included
C11_LongestAlias ==
    rkpc = "detected" => DetectedAmong(ListEntries)

C11_Witness ==
    /\ rkpc = "detected"
    /\ ListEntries # 1..Len(object_synonyms)
    /\ \E p, q \in Longest(ListEntries) :
          p[1] < q[1] /\ object_code = object_synonyms[p[1]][1]


-----------------------------------------------------------------------------
(* Properties of normalize (checked under SpecNorm)                        *)

\* C14 as claimed: normalize never raises, and returns the empty string for
\* the empty string and for None
C14_NormalizeTotal ==
    rkpc # "input" =>
        /\ normalized # AttributeError
        /\ text_in \in {<<>>, NoneVal} => normalized = <<>>

\* x with one whitespace run made longer by a character
Stretched(x) ==
    {SubSeq(x, 1, i) \o <<x[i]>> \o SubSeq(x, i + 1, Len(x)) :
        i \in {k \in 1..Len(x) : IsSpace(x[k])}}

\* x with one whitespace run of two or more made shorter by a character
Shrunk(x) ==
    {SubSeq(x, 1, i - 1) \o SubSeq(x, i + 1, Len(x)) :
        i \in {k \in 1..(Len(x) - 1) : IsSpace(x[k]) /\ IsSpace(x[k + 1])}}

\* x with its letters in every combination of upper and lower case
Recased(x) ==
    {[i \in 1..Len(x) |-> IF i \in up THEN UpperChar(x[i]) ELSE LowerChar(x[i])] :
        up \in SUBSET {k \in 1..Len(x) : LowerChar(x[k]) \in Range(LowerChars)}}

\* texts that differ from x only in letter case and in the length of one
\* whitespace run (longer chains of such changes pass through other texts)
Variants(x) == UNION {Recased(z) : z \in {x} \cup Stretched(x) \cup Shrunk(x)}

\* C15: on every text of the alphabet normalize(normalize(x)) = normalize(x),
\* and normalize(y) = normalize(x) for every y that differs from x only in
\* letter case and in the lengths of whitespace runs
C15_IdempotentCaseBlind ==
    /\ rkpc = "renormalized" => renormalized = normalized
    /\ (rkpc # "input" /\ text_in # NoneVal) =>
          \A y \in Variants(text_in) : Normalized(y) = normalized

C15_Witness ==
    /\ rkpc = "renormalized"
    /\ text_in = <<"B", "!", "\t">>
    /\ normalized = <<"b">>
    /\ <<"b", "!", "\t", "\t">> \in Variants(text_in)


-----------------------------------------------------------------------------
(* Properties of get_refresh_interval (checked under SpecConfig)           *)

\* C19: whatever refresh_interval_sec is configured, the interval returned
\* is an integer of at least 60; an integer of 60 or more is returned as it
\* is, and an integer below 60 (0 and the negatives included) gives 60
C19_IntervalClamped ==
    rkpc = "interval" =>
        /\ refresh_interval \in Int
        /\ refresh_interval >= 60
        /\ refresh_interval_sec.kind = "int" =>
              IF refresh_interval_sec.n >= 60
              THEN refresh_interval = refresh_interval_sec.n
              ELSE refresh_interval = 60

C19_Witness ==
    /\ rkpc = "interval"
    /\ refresh_interval_sec = CfgValue("int", 0, 1, <<>>)
    /\ refresh_interval = 60

-----------------------------------------------------------------------------
(* Properties of the upload-mode sessions (checked under SpecUpload)       *)

\* a message of user uid at time t is in the window: uid has sent /upload,
\* and the latest one no more than UPLOAD_TIMEOUT before t
InWindow(uid, t) ==
    uid \in DOMAIN last_upload /\ t <= last_upload[uid] + UPLOAD_TIMEOUT

\* the media message handled last was answered with its file_id exactly if
\* it was in the window of its sender, and led to a search only outside the
\* window, with a caption that is not blank and, in a group, names the bot
MediaHandledByWindow ==
    handled.type = "media" =>
        /\ outcome.kind = "file_id" <=> InWindow(handled.uid, handled.at)
        /\ outcome.kind \in {"file_id", "search", "silent"}
        /\ outcome.kind = "search" =>
              /\ ~InWindow(handled.uid, handled.at)
              /\ Strip(OrEmpty(handled.caption)) # <<>>
              /\ handled.chat \in GroupChats =>
                     IsSubstring(Mention, handled.caption)
              /\ outcome.query # <<>>

\* the mode of a user changes only with an /upload of that user
ModeIsTheUsersOwn ==
    \A uid \in Users :
        ModeOf(upload_mode', uid) # ModeOf(upload_mode, uid) =>
            handled' = [type |-> "upload", uid |-> uid, at |-> clock]

\* C21: per user, a media message is answered with its file_id, and never
\* leads to a knowledge-base search, exactly if it arrives no later than
\* UPLOAD_TIMEOUT after the user's latest /upload; an /upload of one user
\* never changes the mode of another; outside the window a media message is
\* handled as a query only with a non-empty caption that, in a group chat,
\* mentions the bot
C21_UploadWindowPerUser ==
    []MediaHandledByWindow /\ [][ModeIsTheUsersOwn]_vars

\* a video sent with a caption at the last instant of its sender's window,
\* after the other user has sent a later /upload, is answered with file_id
C21_Witness ==
    /\ handled.type = "media"
    /\ Truthy(handled.caption)
    /\ DOMAIN last_upload = Users
    /\ handled.at = last_upload[handled.uid] + UPLOAD_TIMEOUT
    /\ \E other \in Users : last_upload[other] > last_upload[handled.uid]
    /\ outcome.kind = "file_id"

-----------------------------------------------------------------------------
(* Properties of the schedule cache (checked under SpecCache)              *)

Populated == _cache.present

\* the age of the cache entry
Age == app_clock - _cache.timestamp

\* thread t begins a call of _get_schedule in this step
Begins(t) == req[t].pc = "idle" /\ req'[t].pc # "idle"

\* what a step of thread t does to the cache
CacheDiscipline(t) ==
    /\ Begins(t) =>
          /\ (CACHE_TTL_SECONDS <= 0 /\ Populated /\ ~req'[t].force) =>
                 req'[t].pc = "returning"
          /\ (CACHE_TTL_SECONDS > 0 /\ ~req'[t].force) =>
                 (req'[t].pc = "fetching" <=>
                      ~Populated \/ Age >= CACHE_TTL_SECONDS)
          /\ req'[t].force => req'[t].pc = "fetching"
          /\ _cache' = _cache /\ app_file' = app_file
    /\ (req[t].pc = "returning" /\ req'[t].pc # "returning") =>
          /\ req'[t].res = ApiData(_cache.data) /\ req'[t].fetch = "none"
          /\ _cache' = _cache /\ app_file' = app_file
    /\ (req[t].pc = "fetching" /\ req'[t].fetch = "raised") =>
          /\ _cache' = _cache
          /\ req'[t].res = ApiRaised

\* C22: with CACHE_TTL_SECONDS <= 0 every call that is not forced returns a
\* populated cache without fetching; with CACHE_TTL_SECONDS > 0 a call that
\* is not forced fetches exactly when the cache is absent or its age is at
\* least the TTL; a forced call always fetches; and when the fetch raises,
\* the cache entry stays as it is and the caller gets the error
C22_ScheduleCache ==
    /\ [][\A t \in AppThreads : CacheDiscipline(t)]_vars
    /\ [](\A t \in AppThreads : req[t].pc = "returning" => Populated)

\* with a positive TTL, a call that is not forced is fetching over an entry
\* exactly as old as the TTL, after a fetch of the other thread raised and
\* left that entry in place
C22_Witness ==
    \E t \in AppThreads, u \in AppThreads :
        /\ CACHE_TTL_SECONDS > 0 /\ Populated /\ Age = CACHE_TTL_SECONDS
        /\ req[t].pc = "fetching" /\ ~req[t].force
        /\ req[u].pc = "idle" /\ req[u].fetch = "raised"
        /\ req[u].res = ApiRaised

=============================================================================
